---- MODULE Spec2Model ----
(***************************************************************************)
(* A model of gcode-post.js (G-code Post-Processor v1.4): line parsing,    *)
(* absolute-coordinate tracking, fast-move classification, modal-reset     *)
(* insertion, tagging, and the ordering / grouping / serialization of the  *)
(* merge.                                                                  *)
(*                                                                         *)
(* Text is modelled as a sequence of one-character strings, so that the    *)
(* regular expressions and string operations of the source are computed    *)
(* character by character.  Numbers in the modelled inputs are integer     *)
(* literals (parseFloat's fraction and exponent are not exercised).        *)
(* The tool catalog (buildToolDict, generateFilename) only names the       *)
(* output file and is not part of the model; the modelled inputs contain   *)
(* no tool-definition comment, so defFiles is empty.                       *)
(***************************************************************************)
EXTENDS Integers, Sequences, FiniteSets, TLC

VARIABLES
    ncPaths,    \* findNcFiles' enumeration with each file's text on disk: [path, content]
    files,      \* the global `files` array of FileObject
    pc,         \* position of main(): "load", "merge", "done", "failed"
    ordered,    \* sortByOperation's result: indices into files
    setups,     \* assignSetupNumbers' Map, in insertion order: [name, number]
    groups,     \* groupBySetupAndTool's Map, in insertion order: [key, members]
    opIndex,    \* the run-wide operation counter of mergeBySetupAndTool
    written     \* the merged files written so far

vars == <<ncPaths, files, pc, ordered, setups, groups, opIndex, written>>

(***************************************************************************)
(* Bounds of the model                                                     *)
(***************************************************************************)
MaxFiles == 2       \* files per run under Spec
MaxBody == 1        \* body lines per file under Spec
MaxTrackLen == 4    \* lines of the single file under SpecTrack

(***************************************************************************)
(* Characters and strings                                                  *)
(***************************************************************************)
WS == {" ", "\t"}

Digits == {"0", "1", "2", "3", "4", "5", "6", "7", "8", "9"}

DigitVal == [d \in Digits |->
    CASE d = "0" -> 0 [] d = "1" -> 1 [] d = "2" -> 2 [] d = "3" -> 3
      [] d = "4" -> 4 [] d = "5" -> 5 [] d = "6" -> 6 [] d = "7" -> 7
      [] d = "8" -> 8 [] d = "9" -> 9]

LowerToUpper ==
    [a |-> "A", b |-> "B", c |-> "C", d |-> "D", e |-> "E", f |-> "F",
     g |-> "G", h |-> "H", i |-> "I", j |-> "J", k |-> "K", l |-> "L",
     m |-> "M", n |-> "N", o |-> "O", p |-> "P", q |-> "Q", r |-> "R",
     s |-> "S", t |-> "T", u |-> "U", v |-> "V", w |-> "W", x |-> "X",
     y |-> "Y", z |-> "Z"]

Upper(c) == IF c \in DOMAIN LowerToUpper THEN LowerToUpper[c] ELSE c

Letters == DOMAIN LowerToUpper \cup {LowerToUpper[c] : c \in DOMAIN LowerToUpper}

\* \w of a JavaScript regular expression
IsWordChar(c) == c \in Letters \cup Digits \cup {"_"}

SetMin(S) == CHOOSE m \in S : \A n \in S : m <= n

DropFrom(s, n) == SubSeq(s, n, Len(s))

\* number of leading characters of s that belong to C
LeadLen(s, C) ==
    LET stop == {i \in 1..Len(s) : s[i] \notin C}
    IN  IF stop = {} THEN Len(s) ELSE SetMin(stop) - 1

\* number of trailing characters of s that belong to C
TrailLen(s, C) ==
    LET stop == {i \in 1..Len(s) : s[i] \notin C}
    IN  IF stop = {} THEN Len(s) ELSE Len(s) - (CHOOSE m \in stop : \A n \in stop : n <= m)

\* String.prototype.trim
Trim(s) ==
    LET a == LeadLen(s, WS)
    IN  IF a = Len(s) THEN <<>> ELSE SubSeq(s, a + 1, Len(s) - TrailLen(s, WS))

\* s.trim().split(/\s+/) without the empty token a blank line yields
RECURSIVE SplitWS(_)
SplitWS(s) ==
    IF s = <<>> THEN <<>>
    ELSE IF Head(s) \in WS THEN SplitWS(Tail(s))
    ELSE LET n == LeadLen(s, {s[i] : i \in 1..Len(s)} \ WS)
         IN  <<SubSeq(s, 1, n)>> \o SplitWS(DropFrom(s, n + 1))

\* s, from position p on, starts with pre, ignoring case (pre is upper case)
HasPrefixAtCI(s, p, pre) ==
    /\ p >= 1
    /\ p + Len(pre) - 1 <= Len(s)
    /\ \A i \in 1..Len(pre) : Upper(s[p + i - 1]) = pre[i]

RECURSIVE DigitsValue(_, _)
DigitsValue(s, acc) ==
    IF s = <<>> THEN acc ELSE DigitsValue(Tail(s), 10 * acc + DigitVal[Head(s)])

NaN == [nan |-> TRUE, val |-> 0]

\* parseFloat on an integer literal: optional sign, then the leading digits
ParseFloat(s) ==
    LET signed == s # <<>> /\ s[1] \in {"-", "+"}
        body   == IF signed THEN Tail(s) ELSE s
        n      == LeadLen(body, Digits)
        v      == DigitsValue(SubSeq(body, 1, n), 0)
    IN  IF n = 0 THEN NaN
        ELSE [nan |-> FALSE, val |-> IF signed /\ s[1] = "-" THEN 0 - v ELSE v]

(***************************************************************************)
(* class Line                                                              *)
(***************************************************************************)
ZeroCoord == [x |-> 0, y |-> 0, z |-> 0]

HasLetter(raw, L) == \E i \in 1..Len(raw) : Upper(raw[i]) = L

IgnoredPrefixes ==
    { <<"G", "9", "0">>, <<"G", "9", "4">>, <<"G", "1", "7">>,
      <<"G", "2", "1">>, <<"G", "5", "4">>, <<"M">>, <<"T">>, <<"S">> }

\* Line._calcIgnored
CalcIgnored(raw) ==
    LET tokens == SplitWS(raw)
    IN  IF Len(tokens) = 0 THEN FALSE
        ELSE \A i \in 1..Len(tokens) :
                \E pre \in IgnoredPrefixes : HasPrefixAtCI(tokens[i], 1, pre)

\* Line._calcComment
CalcComment(raw) == raw # <<>> /\ raw[1] = "("

\* new Line(raw); id names the object: the file it was created for and its
\* position there (0 for a synthetic line)
NewLine(raw, id) ==
    [ raw        |-> raw,
      id         |-> id,
      ignored    |-> CalcIgnored(raw),
      isComment  |-> CalcComment(raw),
      startCoord |-> ZeroCoord,
      endCoord   |-> ZeroCoord,
      isFastMove |-> FALSE,
      hasX       |-> HasLetter(raw, "X"),
      hasY       |-> HasLetter(raw, "Y"),
      hasZ       |-> HasLetter(raw, "Z"),
      tags       |-> {} ]

\* Line.clone
Clone(ln, raw, id) ==
    [NewLine(raw, id) EXCEPT !.startCoord = ln.startCoord, !.endCoord = ln.endCoord]

\* ln.raw.trim().length === 0
IsBlank(ln) == Trim(ln.raw) = <<>>

(***************************************************************************)
(* class CommandProcessor                                                  *)
(***************************************************************************)
NewCommandProcessor ==
    [ present |-> TRUE, x |-> 0, y |-> 0, z |-> 5,
      min |-> [x |-> 0, y |-> 0, z |-> 5],
      max |-> [x |-> 0, y |-> 0, z |-> 5] ]

\* a file without commandProcessor (the property is undefined)
NoCommandProcessor == [NewCommandProcessor EXCEPT !.present = FALSE]

IMin(a, b) == IF a <= b THEN a ELSE b
IMax(a, b) == IF a >= b THEN a ELSE b

\* ParseAxes without the isNaN test: an unparsable axis token resets the axis
RECURSIVE ParseAxesNoNaNTest(_, _)
ParseAxesNoNaNTest(tokens, pos) ==
    IF tokens = <<>> THEN pos
    ELSE LET t    == Head(tokens)
             axis == Upper(t[1])
             val  == ParseFloat(Tail(t))
             nxt  == IF axis \in {"X", "Y", "Z"}
                     THEN [ x |-> IF axis = "X" THEN val.val ELSE pos.x,
                            y |-> IF axis = "Y" THEN val.val ELSE pos.y,
                            z |-> IF axis = "Z" THEN val.val ELSE pos.z ]
                     ELSE pos
         IN  ParseAxesNoNaNTest(Tail(tokens), nxt)

\* the token loop of processLine: the last parsable token of an axis wins
RECURSIVE ParseAxes(_, _)
ParseAxes(tokens, pos) ==
    IF tokens = <<>> THEN pos
    ELSE LET t    == Head(tokens)
             axis == Upper(t[1])
             val  == ParseFloat(Tail(t))
             nxt  == IF axis \in {"X", "Y", "Z"} /\ ~val.nan
                     THEN [ x |-> IF axis = "X" THEN val.val ELSE pos.x,
                            y |-> IF axis = "Y" THEN val.val ELSE pos.y,
                            z |-> IF axis = "Z" THEN val.val ELSE pos.z ]
                     ELSE pos
         IN  ParseAxes(Tail(tokens), nxt)

\* CommandProcessor.processLine: the new tracker state and [start, end]
ProcessLine(cp, ln) ==
    LET start == [x |-> cp.x, y |-> cp.y, z |-> cp.z]
        end   == ParseAxes(SplitWS(ln.raw), start)
    IN  [ cp    |-> [ present |-> cp.present,
                      x |-> end.x, y |-> end.y, z |-> end.z,
                      min |-> [ x |-> IMin(cp.min.x, end.x),
                                y |-> IMin(cp.min.y, end.y),
                                z |-> IMin(cp.min.z, end.z) ],
                      max |-> [ x |-> IMax(cp.max.x, end.x),
                                y |-> IMax(cp.max.y, end.y),
                                z |-> IMax(cp.max.z, end.z) ] ],
          start |-> start,
          end   |-> end ]

(***************************************************************************)
(* class FileObject                                                        *)
(***************************************************************************)
None == [some |-> FALSE, v |-> <<>>]
Some(v) == [some |-> TRUE, v |-> v]

\* raw.match(/^\s*\((.*)\)\s*$/): the text inside a full-line comment
CommentMatch(raw) ==
    LET t == Trim(raw)
    IN  IF Len(t) >= 2 /\ t[1] = "(" /\ t[Len(t)] = ")"
        THEN Some(SubSeq(t, 2, Len(t) - 1))
        ELSE None

\* text.match(/(?:^|\s)SETUP=([^\s)]+)/i): the leftmost match's capture
SetupMatch(text) ==
    LET key  == <<"S", "E", "T", "U", "P", "=">>
        stop == WS \cup {")"}
        at   == {p \in 1..Len(text) :
                    /\ p = 1 \/ text[p - 1] \in WS
                    /\ HasPrefixAtCI(text, p, key)
                    /\ p + 6 <= Len(text)
                    /\ text[p + 6] \notin stop}
    IN  IF at = {} THEN None
        ELSE LET p    == SetMin(at)
                 rest == DropFrom(text, p + 6)
                 n    == LeadLen(rest, {rest[i] : i \in 1..Len(rest)} \ stop)
             IN  Some(SubSeq(rest, 1, n))

\* FileObject._extractSetup: null when no comment names a setup
RECURSIVE ExtractSetup(_)
ExtractSetup(lines) ==
    IF lines = <<>> THEN None
    ELSE LET cm == CommentMatch(Head(lines).raw)
             sm == IF cm.some THEN SetupMatch(cm.v) ELSE None
         IN  IF sm.some THEN sm ELSE ExtractSetup(Tail(lines))

\* raw.match(/^\s*T(\d+)/i)
ToolMatch(raw) ==
    LET t == DropFrom(raw, LeadLen(raw, WS) + 1)
        n == IF t = <<>> THEN 0 ELSE LeadLen(Tail(t), Digits)
    IN  IF t # <<>> /\ Upper(t[1]) = "T" /\ n > 0
        THEN Some(<<"T">> \o SubSeq(t, 2, n + 1))
        ELSE None

\* FileObject._extractTool
RECURSIVE ExtractTool(_)
ExtractTool(lines) ==
    IF lines = <<>> THEN <<"T", "?">>
    ELSE LET m == ToolMatch(Head(lines).raw)
         IN  IF m.some THEN m.v ELSE ExtractTool(Tail(lines))

\* FileObject._extractOperation with the `|| 0` of the constructor:
\* filePath.match(/\bop\s*(\d+)/i), parseInt of the capture, 0 when absent
ExtractOperation(filePath) ==
    LET digitsAt(p) ==
            LET rest == DropFrom(filePath, p + 2)
                d    == DropFrom(rest, LeadLen(rest, WS) + 1)
            IN  SubSeq(d, 1, LeadLen(d, Digits))
        at == {p \in 1..Len(filePath) :
                  /\ p = 1 \/ ~IsWordChar(filePath[p - 1])
                  /\ HasPrefixAtCI(filePath, p, <<"O", "P">>)
                  /\ digitsAt(p) # <<>>}
    IN  IF at = {} THEN 0 ELSE DigitsValue(digitsAt(SetMin(at)), 0)

\* FileObject._extractIsDrilling: a full-line comment whose text starts with "Drill"
ExtractIsDrilling(lines) ==
    \E i \in 1..Len(lines) :
        LET cm == CommentMatch(lines[i].raw)
        IN  cm.some /\ HasPrefixAtCI(cm.v, 1, <<"D", "R", "I", "L", "L">>)

\* new FileObject(filePath, lines)
NewFileObject(filePath, lines) ==
    LET drilling == ExtractIsDrilling(lines)
    IN  [ path             |-> filePath,
          lines            |-> lines,
          tool             |-> ExtractTool(lines),
          setup            |-> ExtractSetup(lines),
          operation        |-> ExtractOperation(filePath),
          isDrilling       |-> drilling,
          allowFastMoves   |-> ~drilling,
          commandProcessor |-> NoCommandProcessor ]

(***************************************************************************)
(* loadFiles                                                               *)
(***************************************************************************)
\* IsFastMove with rule 2 accepting a Z-only line that does not rise
IsFastMoveNotStrict(ln, start, end) ==
    LET anyXY == ln.hasX \/ ln.hasY
    IN  IF anyXY /\ start.z >= 0 /\ end.z >= 0 THEN TRUE
        ELSE IF ~anyXY /\ ln.hasZ /\ end.z >= start.z /\ end.z >= 0 THEN TRUE
        ELSE FALSE

\* the fast-move decision of loadFiles for one tracked line
IsFastMove(ln, start, end) ==
    LET anyXY == ln.hasX \/ ln.hasY
    IN  IF anyXY /\ start.z >= 0 /\ end.z >= 0 THEN TRUE
        ELSE IF ~anyXY /\ ln.hasZ /\ end.z > start.z /\ end.z >= 0 THEN TRUE
        ELSE FALSE

\* the loop of loadFiles over fo.lines: tracks and classifies every line in
\* file order; the result is the final tracker and the updated lines
RECURSIVE TrackLines(_, _, _)
TrackLines(cp, todo, done) ==
    IF todo = <<>> THEN [cp |-> cp, lines |-> done]
    ELSE LET ln == Head(todo)
             r  == ProcessLine(cp, ln)
             l2 == [ln EXCEPT !.startCoord = r.start,
                              !.endCoord   = r.end,
                              !.isFastMove = IsFastMove(ln, r.start, r.end)]
         IN  TrackLines(r.cp, Tail(todo), Append(done, l2))

\* one iteration of loadFiles: the FileObject pushed for a path and its content
LoadedFile(filePath, content) ==
    LET lineObjs == [i \in 1..Len(content) |->
                        NewLine(content[i], [f |-> filePath, i |-> i])]
        fo       == NewFileObject(filePath, lineObjs)
        tr       == TrackLines(NewCommandProcessor, fo.lines, <<>>)
    IN  IF fo.allowFastMoves
        THEN [fo EXCEPT !.commandProcessor = tr.cp, !.lines = tr.lines]
        ELSE fo

\* the loop of loadFiles: no path is a definition file, so the next path to
\* load is the one after the files loaded so far
LoadFile ==
    /\ pc = "load"
    /\ Len(files) < Len(ncPaths)
    /\ LET next == ncPaths[Len(files) + 1]
       IN  files' = Append(files, LoadedFile(next.path, next.content))
    /\ UNCHANGED <<ncPaths, pc, ordered, setups, groups, opIndex, written>>

(***************************************************************************)
(* Merge helpers                                                           *)
(***************************************************************************)
\* InsertByOperation placing an element before the elements of equal operation
RECURSIVE InsertByOperationUnstable(_, _, _)
InsertByOperationUnstable(fs, sorted, i) ==
    IF sorted = <<>> THEN <<i>>
    ELSE IF fs[Head(sorted)].operation < fs[i].operation
         THEN <<Head(sorted)>> \o InsertByOperationUnstable(fs, Tail(sorted), i)
         ELSE <<i>> \o sorted

\* Array.prototype.sort is stable: an element goes after every element
\* already placed whose operation is not greater
RECURSIVE InsertByOperation(_, _, _)
InsertByOperation(fs, sorted, i) ==
    IF sorted = <<>> THEN <<i>>
    ELSE IF fs[Head(sorted)].operation <= fs[i].operation
         THEN <<Head(sorted)>> \o InsertByOperation(fs, Tail(sorted), i)
         ELSE <<i>> \o sorted

RECURSIVE SortFrom(_, _, _)
SortFrom(fs, sorted, i) ==
    IF i > Len(fs) THEN sorted
    ELSE SortFrom(fs, InsertByOperation(fs, sorted, i), i + 1)

\* sortByOperation: the files, as indices into fs, by ascending operation
SortByOperation(fs) == SortFrom(fs, <<>>, 1)

Unknown == <<"u", "n", "k", "n", "o", "w", "n">>

\* f.setup || 'unknown'
SetupNameOf(f) == IF f.setup.some /\ f.setup.v # <<>> THEN f.setup.v ELSE Unknown

\* Map.get on a Map kept as a sequence of entries: the entry's position, 0 if absent
IndexOfName(entries, name) ==
    LET at == {k \in 1..Len(entries) : entries[k].name = name}
    IN  IF at = {} THEN 0 ELSE SetMin(at)

IndexOfKey(entries, key) ==
    LET at == {k \in 1..Len(entries) : entries[k].key = key}
    IN  IF at = {} THEN 0 ELSE SetMin(at)

\* assignSetupNumbers
RECURSIVE AssignSetupNumbers(_, _, _)
AssignSetupNumbers(fs, order, map) ==
    IF order = <<>> THEN map
    ELSE LET name == SetupNameOf(fs[Head(order)])
         IN  AssignSetupNumbers(fs, Tail(order),
                IF IndexOfName(map, name) = 0
                THEN Append(map, [name |-> name, number |-> Len(map) + 1])
                ELSE map)

\* `${setupName}||${f.tool}`
GroupKey(f) == SetupNameOf(f) \o <<"|", "|">> \o f.tool

\* groupBySetupAndTool
RECURSIVE GroupBySetupAndTool(_, _, _)
GroupBySetupAndTool(fs, order, map) ==
    IF order = <<>> THEN map
    ELSE LET i   == Head(order)
             key == GroupKey(fs[i])
             k   == IndexOfKey(map, key)
         IN  GroupBySetupAndTool(fs, Tail(order),
                IF k = 0
                THEN Append(map, [key |-> key, members |-> <<i>>])
                ELSE [map EXCEPT ![k].members = Append(@, i)])

\* key.split('||')[0]: the text before the leftmost "||"
SplitKeyFirst(key) ==
    LET at == {p \in 1..Len(key) - 1 : key[p] = "|" /\ key[p + 1] = "|"}
    IN  IF at = {} THEN key ELSE SubSeq(key, 1, SetMin(at) - 1)

(***************************************************************************)
(* parseTags, addTagsToLines                                               *)
(***************************************************************************)
\* parseTags: the tags of the line after the call
ParseTags(ln) ==
    ln.tags
      \cup (IF ln.isFastMove THEN {"FAST"} ELSE {})
      \cup {(IF ln.hasX THEN "X" ELSE "") \o (IF ln.hasY THEN "Y" ELSE "")
              \o (IF ln.hasZ THEN "Z" ELSE "")}
      \cup (IF ln.startCoord.z >= 0 /\ ln.endCoord.z >= 0 THEN {"UNENGAGED"} ELSE {})

\* the synthetic line of addTagsToLines: ln.clone('G1') tagged RESET-FR
ResetLine(ln, path) ==
    [Clone(ln, <<"G", "1">>, [f |-> path, i |-> 0]) EXCEPT !.tags = {"RESET-FR"}]

\* the inner loop of addTagsToLines over one file's lines, pushing to output
RECURSIVE TagFileLines(_, _, _, _)
TagFileLines(fItem, todo, lastWasFast, output) ==
    IF todo = <<>> THEN output
    ELSE LET ln == Head(todo)
         IN  IF ln.ignored \/ ln.isComment \/ IsBlank(ln)
             THEN TagFileLines(fItem, Tail(todo), lastWasFast, output)
             ELSE LET tagged == [ln EXCEPT !.tags = ParseTags(ln)]
                      reset  == fItem.allowFastMoves /\ ~ln.isFastMove /\ lastWasFast
                      last2  == IF ~fItem.allowFastMoves THEN lastWasFast
                                ELSE IF ln.isFastMove THEN TRUE
                                ELSE FALSE
                      out2   == IF reset
                                THEN output \o <<ResetLine(ln, fItem.path), tagged>>
                                ELSE Append(output, tagged)
                  IN  TagFileLines(fItem, Tail(todo), last2, out2)

\* the outer loop of addTagsToLines: `output` is declared once, before the
\* loop over the group, and every fItem.lines is set to that one array
RECURSIVE TagGroupLines(_, _, _)
TagGroupLines(fs, members, output) ==
    IF members = <<>> THEN output
    ELSE LET fItem == fs[Head(members)]
         IN  TagGroupLines(fs, Tail(members),
                TagFileLines(fItem, fItem.lines, FALSE, output))

\* addTagsToLines(group): the files array after the call
AddTagsToLines(fs, members) ==
    LET output == TagGroupLines(fs, members, <<>>)
        inGroup == {members[k] : k \in 1..Len(members)}
    IN  [i \in 1..Len(fs) |->
            IF i \in inGroup THEN [fs[i] EXCEPT !.lines = output] ELSE fs[i]]

(***************************************************************************)
(* buildContentLines, writeFile                                            *)
(*                                                                         *)
(* An output element is a string of the source's contentLines array with   *)
(* annotations: kind (what pushed it), of (the Line object serialized into *)
(* it), member (the position in the group of the file whose block it is    *)
(* in) and num (a number the text carries).  The text of a statistics or   *)
(* content line is its leading part: the fixed-width numbers and the       *)
(* trailing coordinate / tag comment are not modelled.  The run has no     *)
(* command-line arguments: params.fr is undefined and params.filtered is   *)
(* false, so processFeedRate returns its argument and no line is filtered. *)
(***************************************************************************)
NoId == [f |-> <<>>, i |-> 0]

Elem(text, kind, of, member, num) ==
    [text |-> text, kind |-> kind, of |-> of, member |-> member, num |-> num]

ClearanceText == <<"G", "0", " ", "Z", "5">>

\* raw.replace(/^\s*(G1\b)/i, 'G0'), then 'G0 ' in place of the leading
\* whitespace unless the result begins with G0
RapidText(raw) ==
    LET body    == DropFrom(raw, LeadLen(raw, WS) + 1)
        wordAt(t, pre) == HasPrefixAtCI(t, 1, pre)
                            /\ (Len(t) = 2 \/ ~IsWordChar(t[3]))
        rawFast == IF wordAt(body, <<"G", "1">>)
                   THEN <<"G", "0">> \o DropFrom(body, 3)
                   ELSE raw
        body2   == DropFrom(rawFast, LeadLen(rawFast, WS) + 1)
    IN  IF wordAt(body2, <<"G", "0">>) THEN rawFast
        ELSE <<"G", "0", " ">> \o body2

\* the text pushed for one retained line of fItem.lines
ContentText(fItem, ln) ==
    IF fItem.allowFastMoves /\ ln.isFastMove THEN RapidText(ln.raw) ELSE ln.raw

\* the second loop of buildContentLines over fItem.lines
RECURSIVE ContentElems(_, _, _)
ContentElems(fItem, todo, k) ==
    IF todo = <<>> THEN <<>>
    ELSE LET ln == Head(todo)
             rest == ContentElems(fItem, Tail(todo), k)
         IN  IF ln.ignored \/ ln.isComment THEN rest
             ELSE IF IsBlank(ln) THEN <<Elem(<<>>, "blank", NoId, k, 0)>> \o rest
             ELSE <<Elem(ContentText(fItem, ln), "content", ln.id, k, 0)>> \o rest

\* the first loop of buildContentLines over fItem.lines: the comment lines
RECURSIVE CommentElems(_, _)
CommentElems(todo, k) ==
    IF todo = <<>> THEN <<>>
    ELSE LET ln == Head(todo)
             rest == CommentElems(Tail(todo), k)
         IN  IF ln.isComment THEN <<Elem(ln.raw, "comment", ln.id, k, 0)>> \o rest
             ELSE rest

StatsElems(kind, k, num) ==
    << Elem(<<";">>, kind, NoId, k, num),
       Elem(<<"(", "M", "I", "N", ")">>, kind, NoId, k, 0),
       Elem(<<"(", "M", "A", "X", ")">>, kind, NoId, k, 0),
       Elem(<<>>, kind, NoId, k, 0) >>

\* the elements buildContentLines pushes for the member at position k
MemberBlock(fs, members, k) ==
    LET fItem    == fs[members[k]]
        comments == CommentElems(fItem.lines, k)
        fileCnt  == Cardinality({j \in 1..k : fs[members[j]].commandProcessor.present})
    IN  <<Elem(ClearanceText \o <<"\n", "\n">>, "clearance", NoId, k, 0)>>
          \o comments
          \o (IF Len(comments) > 0 THEN <<Elem(<<"\n">>, "blank", NoId, k, 0)>> ELSE <<>>)
          \o (IF fItem.commandProcessor.present
              THEN StatsElems("filestats", k, fileCnt) ELSE <<>>)
          \o ContentElems(fItem, fItem.lines, k)
          \o [n \in 1..10 |-> Elem(<<>>, "blank", NoId, k, 0)]

\* buildContentLines(group): contentLines, and startLines by member position
\* (the source keys startLines by fItem.path; paths are distinct)
RECURSIVE BuildBlocks(_, _, _, _)
BuildBlocks(fs, members, k, acc) ==
    IF k > Len(members) THEN acc
    ELSE BuildBlocks(fs, members, k + 1,
            [ contentLines |-> acc.contentLines \o MemberBlock(fs, members, k),
              startLines   |-> Append(acc.startLines, Len(acc.contentLines) + 1) ])

BuildContentLines(fs, members) ==
    LET preamble ==
            << Elem(<<>>, "blank", NoId, 0, 0),
               Elem(<<"G", "9", "0", " ", "F", "5", "0", "0">>, "preamble", NoId, 0, 0),
               Elem(<<>>, "blank", NoId, 0, 0) >>
              \o StatsElems("groupstats", 0, 0)
        blocks == BuildBlocks(fs, members, 1,
                              [contentLines |-> preamble, startLines |-> <<>>])
    IN  [ contentLines |-> blocks.contentLines
                            \o << Elem(ClearanceText, "footer", NoId, 0, 0),
                                  Elem(<<"G", "0", " ", "X", "0", " ", "Y", "0">>,
                                       "footer", NoId, 0, 0) >>,
          startLines   |-> blocks.startLines ]

\* the header block of mergeBySetupAndTool followed by the content
MergedLines(fs, members) ==
    LET built     == BuildContentLines(fs, members)
        headerLen == 2 + Len(members)
    IN  << Elem(<<"(", "M", "E", "R", "G", "E", "D", ")">>, "header", NoId, 0, 0),
           Elem(<<>>, "blank", NoId, 0, 0) >>
          \o [k \in 1..Len(members) |->
                Elem(fs[members[k]].path, "index", NoId, k, headerLen + built.startLines[k])]
          \o built.contentLines

\* the lines of text t once terminated: t.split('\n') without the empty tail
RECURSIVE SplitNL(_)
SplitNL(t) ==
    LET at == {i \in 1..Len(t) : t[i] = "\n"}
    IN  IF at = {} THEN <<t>>
        ELSE LET p == SetMin(at)
             IN  <<SubSeq(t, 1, p - 1)>>
                   \o (IF p = Len(t) THEN <<>> ELSE SplitNL(DropFrom(t, p + 1)))

\* writeFile: the physical lines of the written file; each element is
\* terminated by a newline unless it ends with one
RECURSIVE WriteFile(_)
WriteFile(lines) ==
    IF lines = <<>> THEN <<>>
    ELSE LET l      == Head(lines)
             pieces == SplitNL(l.text)
         IN  [n \in 1..Len(pieces) |->
                [l EXCEPT !.text = pieces[n],
                          !.kind = IF n = 1 THEN l.kind ELSE "blank"]]
               \o WriteFile(Tail(lines))

(***************************************************************************)
(* mergeBySetupAndTool and main                                            *)
(***************************************************************************)
\* the three helper calls that open mergeBySetupAndTool
MergeStart ==
    /\ pc = "load"
    /\ Len(files) = Len(ncPaths)
    /\ LET order == SortByOperation(files)
       IN  /\ ordered' = order
           /\ setups' = AssignSetupNumbers(files, order, <<>>)
           /\ groups' = GroupBySetupAndTool(files, order, <<>>)
    /\ opIndex' = 1
    /\ pc' = "merge"
    /\ UNCHANGED <<ncPaths, files, written>>

\* one iteration of the loop over the groups; createSetupFolder reads
\* setupObj.number and throws a TypeError when setups has no such name, which
\* main() catches: the run fails and nothing more is written
MergeGroup ==
    /\ pc = "merge"
    /\ opIndex <= Len(groups)
    /\ LET group    == groups[opIndex]
           setupIdx == IndexOfName(setups, SplitKeyFirst(group.key))
           tagged   == AddTagsToLines(files, group.members)
       IN  IF setupIdx = 0
           THEN /\ pc' = "failed"
                /\ UNCHANGED <<files, opIndex, written>>
           ELSE /\ files' = tagged
                /\ written' = Append(written,
                      [ folder  |-> setups[setupIdx],
                        op      |-> opIndex,
                        key     |-> group.key,
                        members |-> group.members,
                        lines   |-> WriteFile(MergedLines(tagged, group.members)) ])
                /\ opIndex' = opIndex + 1
                /\ pc' = pc
    /\ UNCHANGED <<ncPaths, ordered, setups, groups>>

\* the loop over the groups is exhausted: main() logs DONE
Finish ==
    /\ pc = "merge"
    /\ opIndex > Len(groups)
    /\ pc' = "done"
    /\ UNCHANGED <<ncPaths, files, ordered, setups, groups, opIndex, written>>

Next == LoadFile \/ MergeStart \/ MergeGroup \/ Finish

(***************************************************************************)
(* Inputs                                                                  *)
(***************************************************************************)
SeqsUpTo(S, n) == UNION {[1..m -> S] : m \in 0..n}

\* file names: operation 2, operation 1 twice, and no operation
PathSet ==
    { <<"o", "p", "2">>, <<"O", "p", " ", "1">>, <<"o", "p", "1", "b">>, <<"a">> }

\* leading lines of a file: nothing; a setup whose name contains "||"; a
\* drilling comment; a setup and a tool
HeaderSet ==
    { <<>>,
      << <<"(", "S", "E", "T", "U", "P", "=", "a", "|", "|", "b", ")">> >>,
      << <<"(", "D", "r", "i", "l", "l", ")">> >>,
      << <<"(", "S", "E", "T", "U", "P", "=", "a", ")">>, <<"T", "1">> >> }

\* body lines under Spec: a horizontal move, a plunge, an ignorable line, a blank line
BodyVocab ==
    { <<"G", "1", " ", "X", "1">>, <<"G", "1", " ", "Z", "-", "2">>,
      <<"M", "3">>, <<>> }

\* lines under SpecTrack
TrackVocab ==
    { <<"G", "0", " ", "Z", "5">>,
      <<"G", "1", " ", "X", "1", "0", " ", "Y", "1", "0">>,
      <<"G", "1", " ", "Z", "-", "2">>,
      <<"G", "1", " ", "Z", "5">>,
      <<"G", "1", " ", "Z", "-", "1">>,
      <<"(", " ", "Z", "5", " ", ")">>,
      <<"G", "1", " ", "Z", "q", " ", "x", "3">> }

\* every enumeration of at most n files with distinct names and contents from C
Enumerations(C, n) ==
    {s \in SeqsUpTo([path : PathSet, content : C], n) :
        \A i, j \in 1..Len(s) : i # j => s[i].path # s[j].path}

InitState(paths) ==
    /\ ncPaths = paths
    /\ files = <<>>
    /\ pc = "load"
    /\ ordered = <<>>
    /\ setups = <<>>
    /\ groups = <<>>
    /\ opIndex = 1
    /\ written = <<>>

Init ==
    \E paths \in Enumerations({h \o b : h \in HeaderSet, b \in SeqsUpTo(BodyVocab, MaxBody)},
                              MaxFiles) :
        InitState(paths)

InitTrack ==
    \E content \in SeqsUpTo(TrackVocab, MaxTrackLen) :
        InitState(<<[path |-> <<"a">>, content |-> content]>>)

InitOrder ==
    \E paths \in Enumerations({h \o << <<"G", "1", " ", "X", "1">> >> : h \in HeaderSet},
                              MaxFiles) :
        InitState(paths)

Spec == Init /\ [][Next]_vars

SpecTrack == InitTrack /\ [][Next]_vars

SpecOrder == InitOrder /\ [][Next]_vars

(***************************************************************************)
(* Properties                                                              *)
(***************************************************************************)
AxisOf(c, a) == CASE a = "X" -> c.x [] a = "Y" -> c.y [] a = "Z" -> c.z

SetMax(S) == CHOOSE m \in S : \A n \in S : n <= m

\* the lines of a file are still those loadFiles built: no group was merged
Pristine == written = <<>>

ExampleLines ==
    << <<"G", "0", " ", "Z", "5">>,
       <<"G", "1", " ", "X", "1", "0", " ", "Y", "1", "0">>,
       <<"G", "1", " ", "Z", "-", "2">>,
       <<"G", "1", " ", "Z", "5">> >>

\* C6: every line of a non-drilling file is FAST iff (it has X or Y and the
\* tracked start.z and end.z are both >= 0) or (it has Z, neither X nor Y,
\* end.z > start.z and end.z >= 0); for the file 'G0 Z5', 'G1 X10 Y10',
\* 'G1 Z-2', 'G1 Z5' the lines are NOT FAST, FAST, NOT FAST, FAST.
C6_FastIffRule ==
    \A i \in 1..Len(files) :
        files[i].allowFastMoves =>
            /\ \A n \in 1..Len(files[i].lines) :
                  LET ln    == files[i].lines[n]
                      s     == ln.startCoord
                      e     == ln.endCoord
                      hasXY == HasLetter(ln.raw, "X") \/ HasLetter(ln.raw, "Y")
                      hasZ  == HasLetter(ln.raw, "Z")
                  IN  ln.isFastMove <=>
                        \/ hasXY /\ s.z >= 0 /\ e.z >= 0
                        \/ hasZ /\ ~hasXY /\ e.z > s.z /\ e.z >= 0
            /\ (Pristine /\ ncPaths[i].content = ExampleLines) =>
                  [n \in 1..4 |-> files[i].lines[n].isFastMove]
                      = <<FALSE, TRUE, FALSE, TRUE>>

\* the example file is loaded and its retract 'G1 Z5' from z = -2 is FAST
C6_Witness ==
    /\ Pristine
    /\ Len(files) = 1
    /\ ncPaths[1].content = ExampleLines
    /\ files[1].lines[3].startCoord.z = 5
    /\ files[1].lines[3].endCoord.z = 0 - 2
    /\ ~files[1].lines[3].isFastMove
    /\ files[1].lines[4].isFastMove

\* C7: for every file the tracker processes, the first line starts at
\* (0,0,5), each line starts where the previous one ended, an axis without a
\* parsable token on the line keeps its value and an axis with one takes the
\* value of the (last) parsable token.
C7_TrackerChain ==
    Pristine =>
        \A i \in 1..Len(files) :
            files[i].commandProcessor.present =>
                LET L == files[i].lines
                IN  /\ Len(L) = Len(ncPaths[i].content)
                    /\ Len(L) > 0 => L[1].startCoord = [x |-> 0, y |-> 0, z |-> 5]
                    /\ \A n \in 1..Len(L) - 1 : L[n + 1].startCoord = L[n].endCoord
                    /\ \A n \in 1..Len(L) : \A a \in {"X", "Y", "Z"} :
                          LET toks == SplitWS(ncPaths[i].content[n])
                              ok   == {j \in 1..Len(toks) :
                                          /\ Upper(toks[j][1]) = a
                                          /\ ~ParseFloat(Tail(toks[j])).nan}
                          IN  AxisOf(L[n].endCoord, a) =
                                IF ok = {} THEN AxisOf(L[n].startCoord, a)
                                ELSE ParseFloat(Tail(toks[SetMax(ok)])).val

\* a tracked file whose line 'G1 Zq x3' starts below the plane: Z has no
\* parsable token and keeps -2, X takes 3
C7_Witness ==
    /\ Pristine
    /\ \E i \in 1..Len(files) : \E n \in 2..Len(files[i].lines) :
          LET ln == files[i].lines[n]
          IN  /\ files[i].commandProcessor.present
              /\ ln.raw = <<"G", "1", " ", "Z", "q", " ", "x", "3">>
              /\ ln.startCoord.z = 0 - 2
              /\ ln.endCoord.z = 0 - 2
              /\ ln.startCoord.x = 10
              /\ ln.endCoord.x = 3

\* the operation index each modelled file name carries (none counts as 0)
NamedOperation(path) ==
    CASE path = <<"o", "p", "2">> -> 2
      [] path = <<"O", "p", " ", "1">> -> 1
      [] path = <<"o", "p", "1", "b">> -> 1
      [] path = <<"a">> -> 0

\* the position in a written file of the clearance line opening member k's block
BlockStart(w, k) ==
    {p \in 1..Len(w.lines) : w.lines[p].kind = "clearance" /\ w.lines[p].member = k}

\* C8: within every group the member blocks appear in ascending operation
\* index (none counts as 0), and members of equal index in the order in which
\* their files were enumerated; files with index 2 and 1 appear as 1 then 2.
C8_BlocksByOperation ==
    \A g \in 1..Len(written) :
        LET w == written[g]
            m == w.members
            op(k) == NamedOperation(ncPaths[m[k]].path)
        IN  /\ \A k \in 1..Len(m) : Cardinality(BlockStart(w, k)) = 1
            /\ \A k1, k2 \in 1..Len(m) :
                  k1 < k2 =>
                    /\ \A p1 \in BlockStart(w, k1), p2 \in BlockStart(w, k2) : p1 < p2
                    /\ op(k1) <= op(k2)
                    /\ op(k1) = op(k2) => m[k1] < m[k2]

\* a group of two files enumerated with index 2 first and index 1 second is
\* written with the index-1 file's block first
C8_Witness ==
    \E g \in 1..Len(written) :
        LET w == written[g]
        IN  /\ w.members = <<2, 1>>
            /\ ncPaths[1].path = <<"o", "p", "2">>
            /\ ncPaths[2].path = <<"O", "p", " ", "1">>
            /\ \E p1 \in BlockStart(w, 1), p2 \in BlockStart(w, 2) : p1 < p2

\* the positions, in source order, of the retained lines of file i on disk:
\* not a comment, not ignorable, not blank
SourceRetained(i) ==
    LET c == ncPaths[i].content
    IN  SelectSeq([n \in 1..Len(c) |-> n],
                  LAMBDA n : ~CalcComment(c[n]) /\ ~CalcIgnored(c[n]) /\ Trim(c[n]) # <<>>)

\* the content lines written in member k's block, in output order
BlockContent(w, k) ==
    SelectSeq(w.lines, LAMBDA e : e.kind = "content" /\ e.member = k)

\* C1: in every written file, the content lines of each member's block are
\* that member's own retained source lines, in source order, once each, plus
\* only RESET-FR lines inserted for that member.
C1_BlockHoldsOwnLines ==
    \A g \in 1..Len(written) :
        LET w == written[g]
        IN  \A k \in 1..Len(w.members) :
                LET i      == w.members[k]
                    block  == BlockContent(w, k)
                    source == SelectSeq(block, LAMBDA e : e.of.i > 0)
                    own    == SourceRetained(i)
                IN  /\ [n \in 1..Len(source) |-> source[n].of]
                         = [n \in 1..Len(own) |-> [f |-> ncPaths[i].path, i |-> own[n]]]
                    /\ \A n \in 1..Len(block) :
                          block[n].of.i = 0 =>
                              /\ block[n].of.f = ncPaths[i].path
                              /\ block[n].text = <<"G", "1">>

IsReset(ln) == "RESET-FR" \in ln.tags

\* C2: in the line sequence serialized for a non-drilling member, between
\* two consecutive retained lines stands exactly one RESET-FR line 'G1' when
\* the first is FAST and the second NOT FAST, and none otherwise.
C2_ResetOnlyAfterFast ==
    \A g \in 1..Len(written) :
        \A k \in 1..Len(written[g].members) :
            LET fItem == files[written[g].members[k]]
                L     == fItem.lines
                real  == {p \in 1..Len(L) : ~IsReset(L[p])}
            IN  fItem.allowFastMoves =>
                    \A q, p \in real :
                        (q < p /\ \A r \in real : ~(q < r /\ r < p)) =>
                            IF L[q].isFastMove /\ ~L[p].isFastMove
                            THEN p = q + 2 /\ L[q + 1].raw = <<"G", "1">>
                            ELSE p = q + 1

\* C3: at every point of the run every line in the line sequence of a
\* drilling file has zero start and end coordinates, is not a fast move and
\* carries neither the FAST nor the RESET-FR tag.
C3_DrillingLinesStayDefault ==
    \A i \in 1..Len(files) :
        files[i].isDrilling =>
            \A n \in 1..Len(files[i].lines) :
                LET ln == files[i].lines[n]
                IN  /\ ln.startCoord = ZeroCoord
                    /\ ln.endCoord = ZeroCoord
                    /\ ~ln.isFastMove
                    /\ ln.tags \cap {"FAST", "RESET-FR"} = {}

\* C4: the number the header block carries for the member at position k is
\* the line number, in the written file, of the 'G0 Z5' opening its block.
C4_HeaderNumberIsBlockLine ==
    \A g \in 1..Len(written) :
        LET w == written[g]
        IN  \A p \in 1..Len(w.lines) :
                w.lines[p].kind = "index" =>
                    BlockStart(w, w.lines[p].member) = {w.lines[p].num}

\* C5: every comment line of a member's source file is written verbatim in
\* that member's block, after the clearance line and before the content lines.
C5_CommentsWritten ==
    \A g \in 1..Len(written) :
        LET w == written[g]
        IN  \A k \in 1..Len(w.members) :
                LET c == ncPaths[w.members[k]].content
                IN  \A n \in 1..Len(c) :
                        CalcComment(c[n]) =>
                            \E p \in 1..Len(w.lines) :
                                /\ w.lines[p].text = c[n]
                                /\ w.lines[p].member = k
                                /\ \A b \in BlockStart(w, k) : b < p
                                /\ \A q \in 1..Len(w.lines) :
                                      (w.lines[q].kind = "content" /\ w.lines[q].member = k)
                                          => p < q

\* the setup a file's text names: the non-space text after SETUP= in a
\* full-line comment, "unknown" when there is none
NamedSetup(i) ==
    LET s == ExtractSetup([n \in 1..Len(ncPaths[i].content) |->
                              [raw |-> ncPaths[i].content[n]]])
    IN  IF s.some THEN s.v ELSE Unknown

\* C9: grouping and merging never raise: the run does not fail, and once it
\* is done every file is in exactly one written group, whose folder carries
\* a setup number and the file's setup name ("unknown" when it has none).
C9_MergeNeverRaises ==
    /\ pc # "failed"
    /\ pc = "done" =>
          \A i \in 1..Len(ncPaths) :
              LET in == {g \in 1..Len(written) :
                            \E k \in 1..Len(written[g].members) :
                                written[g].members[k] = i}
              IN  /\ Cardinality(in) = 1
                  /\ \A g \in in :
                        /\ written[g].folder.number \in 1..Len(setups)
                        /\ written[g].folder.name = NamedSetup(i)

\* the position a machine is at after executing the first p lines of a
\* written file: only axis words of lines that are not comments count
RECURSIVE MachinePos(_, _)
MachinePos(lines, p) ==
    IF p = 0 THEN [x |-> 0, y |-> 0, z |-> 5]
    ELSE LET before == MachinePos(lines, p - 1)
             t      == lines[p].text
         IN  IF t # <<>> /\ t[1] \in {"(", ";"} THEN before
             ELSE ParseAxes(SplitWS(t), before)

\* C10: whenever a line is written with the rapid mnemonic because it is
\* FAST and has X or Y, the machine executing the written file is at z >= 0
\* before and after that line.
C10_RapidOnlyAboveClearance ==
    \A g \in 1..Len(written) :
        LET w == written[g]
        IN  \A p \in 1..Len(w.lines) :
                LET e     == w.lines[p]
                    fItem == files[w.members[e.member]]
                IN  (/\ e.kind = "content"
                     /\ e.of.i > 0
                     /\ fItem.allowFastMoves
                     /\ \E n \in 1..Len(fItem.lines) :
                           /\ fItem.lines[n].id = e.of
                           /\ fItem.lines[n].isFastMove
                           /\ fItem.lines[n].hasX \/ fItem.lines[n].hasY)
                    => /\ MachinePos(w.lines, p - 1).z >= 0
                       /\ MachinePos(w.lines, p).z >= 0

====
